---- MODULE Spec2Model ----
(***************************************************************************)
(* A model of backup.c: the command-line backup tool that stores a default *)
(* target directory in <home>/.config/backup_tool.conf and copies a source *)
(* tree into <target>/Backup <timestamp>.                                  *)
(*                                                                         *)
(* Path strings are sequences of characters.  A character is "/" or a      *)
(* file name; every file name of the model is one character long, the      *)
(* timestamp name "Backup YYYY-MM-DD HH-MM-SS" included, and NL is the     *)
(* name made of a single newline.  The file system maps the component      *)
(* sequence of every existing entry to its node.                           *)
(***************************************************************************)
EXTENDS Naturals, Sequences, FiniteSets, TLC

\* ---------------------------------------------------------------- bounds
\* PATH_MAX scaled down: the size of every path buffer, in characters.
PathMax == 12
\* The number of copy_directory frames the process stack holds.
StackMax == 8
\* The number of environment faults (a system call failing for a reason the
\* file system of the model does not show) injected into one behaviour.
MaxFaults == 1
\* The number of invocations of the program in one behaviour.
MaxRuns == 2
\* The number of seconds the clock advances in one behaviour.
MaxTick == 1
\* The number of symbolic links one path resolution follows (ELOOP beyond).
SymLoopMax == 2

\* ---------------------------------------------------------------- strings
Slash == "/"
NL == "nl"
NoFile == <<"no file">>
NoEnt == <<"ENOENT">>
TooLong == <<"ENAMETOOLONG">>

Min(a, b) == IF a < b THEN a ELSE b

\* snprintf(buf, PATH_MAX, ...): at most PATH_MAX - 1 characters are stored.
Trunc(s) == SubSeq(s, 1, Min(Len(s), PathMax - 1))

\* snprintf(path, PATH_MAX, "%s/%s", dir, name)
Join(dir, name) == Trunc(dir \o <<Slash, name>>)

\* The components of a path string.
Parse(s) == SelectSeq(s, LAMBDA c : c # Slash)

TrailingSlash(s) == Len(s) > 0 /\ s[Len(s)] = Slash /\ Parse(s) # <<>>

RECURSIVE PathStr(_)
PathStr(comps) ==
    IF comps = <<>> THEN <<>>
    ELSE <<Slash, Head(comps)>> \o PathStr(Tail(comps))

\* The canonical string of a component sequence; the root is "/".
Canonical(comps) == IF comps = <<>> THEN <<Slash>> ELSE PathStr(comps)

Front(s) == SubSeq(s, 1, Len(s) - 1)
Last(s) == s[Len(s)]

\* DEFAULT_TARGET_DIR "/media/pi/piBackup", one component in the model.
DEFAULT_TARGET_DIR == <<Slash, "m">>

\* strftime(..., "Backup %Y-%m-%d %H-%M-%S", ...): one name per second.
Stamp(now) == "T" \o ToString(now)

\* ------------------------------------------------------------ file system
Dir == [k |-> "dir", data |-> <<>>, mode |-> "rwxr-xr-x", to |-> <<>>]
Reg(d, m) == [k |-> "reg", data |-> d, mode |-> m, to |-> <<>>]
Lnk(t) == [k |-> "lnk", data |-> <<>>, mode |-> "rwxrwxrwx", to |-> t]
Fifo == [k |-> "fifo", data |-> <<>>, mode |-> "rw-r--r--", to |-> <<>>]

\* The mode open(2) gives a file fopen(dest, "wb") creates: 0666 & ~umask.
CreatMode == "rw-r--r--"

\* Path resolution from directory cur over the components rest, following
\* symbolic links: "ok" at an existing node, "noent" when only the last
\* component is missing (at: where it would be), "err" otherwise.
RECURSIVE Lookup(_, _, _, _)
Lookup(f, cur, rest, fuel) ==
    IF rest = <<>> THEN [st |-> "ok", at |-> cur]
    ELSE IF f[cur].k # "dir" THEN [st |-> "err", at |-> cur]
    ELSE LET p == Append(cur, Head(rest)) IN
         IF p \notin DOMAIN f
         THEN IF Len(rest) = 1 THEN [st |-> "noent", at |-> p]
              ELSE [st |-> "err", at |-> p]
         ELSE IF f[p].k = "lnk"
         THEN IF fuel = 0 THEN [st |-> "err", at |-> p]
              ELSE Lookup(f, <<>>, f[p].to \o Tail(rest), fuel - 1)
         ELSE Lookup(f, p, Tail(rest), fuel)

\* lstat(2): as stat, but a symbolic link in the last component is not
\* followed.
Lstat(f, s) ==
    LET comps == Parse(s) IN
    IF s = <<>> THEN NoEnt
    ELSE IF comps = <<>> THEN <<>>
    ELSE LET par == Lookup(f, <<>>, Front(comps), SymLoopMax) IN
         IF par.st = "ok" /\ f[par.at].k = "dir"
            /\ Append(par.at, Last(comps)) \in DOMAIN f
         THEN Append(par.at, Last(comps)) ELSE NoEnt

\* stat(2): the component sequence of the node the path names, or NoEnt.
Stat(f, s) ==
    IF s = <<>> THEN NoEnt
    ELSE LET r == Lookup(f, <<>>, Parse(s), SymLoopMax) IN
         IF r.st = "ok" /\ (TrailingSlash(s) => f[r.at].k = "dir")
         THEN r.at ELSE NoEnt

IsDir(f, s) == Stat(f, s) # NoEnt /\ f[Stat(f, s)].k = "dir"

\* realpath(3): the canonical string of an existing path, or NoEnt (NULL).
Realpath(f, s) ==
    LET at == Stat(f, s) IN
    IF at = NoEnt \/ Len(Canonical(at)) >= PathMax THEN NoEnt
    ELSE Canonical(at)

\* mkdir(2): "ok" creates at, "exists" is EEXIST (the last component is not
\* followed when it is a symbolic link), "fail" is any other error.
Mkdir(f, s) ==
    LET comps == Parse(s) IN
    IF s = <<>> THEN [res |-> "fail", at |-> <<>>]
    ELSE IF comps = <<>> THEN [res |-> "exists", at |-> <<>>]
    ELSE LET par == Lookup(f, <<>>, Front(comps), SymLoopMax) IN
         IF par.st # "ok" \/ f[par.at].k # "dir"
         THEN [res |-> "fail", at |-> par.at]
         ELSE LET p == Append(par.at, Last(comps)) IN
              IF p \in DOMAIN f THEN [res |-> "exists", at |-> p]
              ELSE [res |-> "ok", at |-> p]

\* fopen(path, "wb"): the node to truncate ("ok") or to create ("noent"),
\* or "err" (a directory, a trailing slash, a missing parent; a FIFO, which
\* would block, is treated as not openable).
FopenW(f, s) ==
    IF s = <<>> \/ Parse(s) = <<>> \/ TrailingSlash(s)
    THEN [st |-> "err", at |-> <<>>]
    ELSE LET r == Lookup(f, <<>>, Parse(s), SymLoopMax) IN
         IF r.st = "ok" /\ f[r.at].k # "reg" THEN [st |-> "err", at |-> r.at]
         ELSE r

\* The names readdir(3) can return for the directory at d.
Entries(f, d) ==
    { Last(p) : p \in { q \in DOMAIN f : Len(q) = Len(d) + 1
                                          /\ SubSeq(q, 1, Len(d)) = d } }

Put(f, p, node) == [q \in DOMAIN f \cup {p} |-> IF q = p THEN node ELSE f[q]]


\* ------------------------------------------------------------------ state
VARIABLES
    fs,             \* the file system: component sequence -> node
    conf,           \* the text of <home>/.config/backup_tool.conf, or NoFile
    confDir,        \* whether <home>/.config exists
    clock,          \* time(NULL), in seconds
    opts, args,     \* argv: the options getopt has yet to return, the operands
    pc,             \* the position of the process
    target_dir, update_default, source_dir, backup_dir,     \* main's locals
    stack,          \* the copy_directory frames, the innermost last
    call,           \* the arguments of the call being made
    openDirs,       \* DIR streams open
    openFiles,      \* FILE streams open
    out,            \* the lines written to standard output by this invocation
    log,            \* <<path, what>>: the warnings and errors of this invocation
    faults,         \* environment faults injected so far
    runs,           \* invocations started so far
    argv0,          \* history: the options this invocation was given
    confAtStart,    \* history: conf when this invocation started
    fsAtStart,      \* history: fs when this invocation started
    lastSet,        \* history: the path the last confirmed -t run announced
    collided,       \* history: main's mkdir found the backup directory existing
    created,        \* history: main created the backup directory
    entered         \* history: the directories copy_directory began to enumerate

env == <<fs, conf, confDir, clock>>
locals == <<target_dir, update_default, source_dir, backup_dir>>
copying == <<stack, call, openDirs, openFiles, entered>>
hist == <<argv0, confAtStart, fsAtStart, lastSet, collided, created, runs>>
vars == <<env, opts, args, pc, locals, copying, out, log, faults, hist>>

\* No call in progress; from and at are the nodes copy_file's streams are on.
NoCall == [src |-> <<>>, dest |-> <<>>, from |-> <<>>, at |-> <<>>]

Exited == pc \in {"exit0", "exit1", "crash"}

\* The faults an action may draw: none, or one of S while the budget lasts.
Faults(S) == IF faults < MaxFaults THEN S \cup {"none"} ELSE {"none"}
Spend(flt) == faults' = IF flt = "none" THEN faults ELSE faults + 1

\* ------------------------------------------------------------------- main
\* Mutant: the failed realpath is reported but the option loop goes on.
GetoptT_NoExit ==
    /\ pc = "getopt" /\ opts # <<>> /\ Head(opts).kind = "t"
    /\ opts' = Tail(opts)
    /\ LET rp == Realpath(fs, Head(opts).arg) IN
       /\ target_dir' = IF rp = NoEnt THEN target_dir ELSE rp
       /\ update_default' = TRUE
       /\ pc' = "getopt"
    /\ UNCHANGED <<env, args, source_dir, backup_dir, copying, out, log,
                   faults, hist>>

\* main, lines 49-59: getopt returns 't'; realpath fails -> exit(EXIT_FAILURE).
GetoptT ==
    /\ pc = "getopt" /\ opts # <<>> /\ Head(opts).kind = "t"
    /\ opts' = Tail(opts)
    /\ LET rp == Realpath(fs, Head(opts).arg) IN
       IF rp = NoEnt
       THEN pc' = "exit1" /\ UNCHANGED <<target_dir, update_default>>
       ELSE pc' = "getopt" /\ target_dir' = rp /\ update_default' = TRUE
    /\ UNCHANGED <<env, args, source_dir, backup_dir, copying, out, log,
                   faults, hist>>

\* main, lines 60-64: any other option is a usage error.
GetoptUsage ==
    /\ pc = "getopt" /\ opts # <<>> /\ Head(opts).kind # "t"
    /\ opts' = Tail(opts)
    /\ pc' = "exit1"
    /\ UNCHANGED <<env, args, locals, copying, out, log, faults, hist>>

\* main, lines 49 and 68: getopt returns -1.
GetoptEnd ==
    /\ pc = "getopt" /\ opts = <<>>
    /\ pc' = IF update_default THEN "write" ELSE "read"
    /\ UNCHANGED <<env, opts, args, locals, copying, out, log, faults, hist>>

\* write_default_backup_dir with ensure_config_dir_exists: mkdir may fail
\* (logged only), fopen(config_path, "w") may fail (logged only); the results
\* of fprintf and fclose are not looked at, so a failed flush leaves the
\* truncated file.
WriteDefault(flt) ==
    /\ pc = "write"
    /\ LET dirNow == confDir \/ flt # "mkdir"
           opened == dirNow /\ flt # "fopen" IN
       /\ confDir' = dirNow
       /\ conf' = IF ~opened THEN conf
                  ELSE IF flt = "flush" THEN <<>>
                  ELSE target_dir
       /\ log' = IF opened THEN log ELSE log \cup {<<target_dir, "config">>}
    /\ Spend(flt)
    /\ pc' = "confirm"
    /\ UNCHANGED <<fs, clock, opts, args, locals, copying, out, hist>>

\* main, lines 72-74: the confirmation and return 0.
Confirm ==
    /\ pc = "confirm"
    /\ out' = Append(out, "Updated default backup directory")
    /\ lastSet' = target_dir
    /\ pc' = "exit0"
    /\ UNCHANGED <<env, opts, args, locals, copying, log, faults, argv0,
                   confAtStart, fsAtStart, collided, created, runs>>

\* fgets(buf, PATH_MAX, f) then buf[strcspn(buf, "\n")] = 0: the characters
\* before the first newline, PATH_MAX - 1 of them at most.
RECURSIVE UpToNewline(_)
UpToNewline(s) ==
    IF s = <<>> \/ Head(s) = NL THEN <<>>
    ELSE <<Head(s)>> \o UpToNewline(Tail(s))

Fgets(s) == UpToNewline(Trunc(s))

\* read_default_backup_dir: the stored line, or DEFAULT_TARGET_DIR when the
\* file cannot be opened or is empty.
ReadDefault(flt) ==
    /\ pc = "read"
    /\ target_dir' = IF conf = NoFile \/ flt = "fopen" \/ conf = <<>>
                     THEN DEFAULT_TARGET_DIR
                     ELSE Fgets(conf)
    /\ Spend(flt)
    /\ pc' = "operand"
    /\ UNCHANGED <<env, opts, args, update_default, source_dir, backup_dir,
                   copying, out, log, hist>>

\* main, lines 83-99: the operand is required and must be a directory.
CheckSource ==
    /\ pc = "operand"
    /\ IF args = <<>>
       THEN pc' = "exit1" /\ UNCHANGED source_dir
       ELSE /\ source_dir' = Head(args)
            /\ pc' = IF IsDir(fs, Head(args)) THEN "mkdir" ELSE "exit1"
    /\ UNCHANGED <<env, opts, args, target_dir, update_default, backup_dir,
                   copying, out, log, faults, hist>>

\* create_timestamped_dir: base/<stamp>, or TooLong when snprintf reports
\* PATH_MAX characters or more.
create_timestamped_dir(base_path, now) ==
    LET full == base_path \o <<Slash, Stamp(now)>> IN
    IF Len(full) >= PathMax THEN TooLong ELSE full

\* Mutant: main tolerates EEXIST the way copy_directory does.
MkdirFatal_ExceptExists(res) == res = "fail"

\* main, line 105: mkdir(backup_dir, 0755) != 0, whatever errno says.
MkdirFatal(res) == res # "ok"

\* main, lines 104-108: any mkdir failure, EEXIST included, is fatal.
MkBackupDir(flt) ==
    /\ pc = "mkdir"
    /\ LET dir == create_timestamped_dir(target_dir, clock)
           made == IF dir = TooLong THEN [res |-> "fail", at |-> <<>>]
                   ELSE Mkdir(fs, dir) IN
       IF dir = TooLong
       THEN pc' = "exit1" /\ UNCHANGED <<fs, backup_dir, collided, created>>
       ELSE /\ backup_dir' = dir
            /\ collided' = (made.res = "exists")
            /\ IF ~MkdirFatal(made.res) /\ flt = "none"
               THEN /\ fs' = IF made.res = "ok" THEN Put(fs, made.at, Dir)
                          ELSE fs
                    /\ created' = TRUE
                    /\ pc' = "backing"
               ELSE /\ pc' = "exit1"
                    /\ UNCHANGED <<fs, created>>
    /\ Spend(flt)
    /\ UNCHANGED <<conf, confDir, clock, opts, args, target_dir,
                   update_default, source_dir, copying, out, log, argv0,
                   confAtStart, fsAtStart, lastSet, runs>>

\* main, lines 111-116: announce, then call copy_directory.
StartCopy ==
    /\ pc = "backing"
    /\ out' = Append(out, "Backing up")
    /\ call' = [NoCall EXCEPT !.src = source_dir, !.dest = backup_dir]
    /\ pc' = "calldir"
    /\ UNCHANGED <<env, opts, args, locals, stack, openDirs, openFiles,
                   entered, log, faults, hist>>

\* main, lines 118-122.
Finish ==
    /\ pc = "finish"
    /\ out' = Append(out, "Backup completed successfully!")
    /\ pc' = "exit0"
    /\ UNCHANGED <<env, opts, args, locals, copying, log, faults, hist>>


\* --------------------------------------------------------- copy_directory
\* Mutant: a failure that returns to main ends the run with exit(1).
ReturnTo_Status(stk, failed) ==
    IF stk # <<>> THEN "loop" ELSE IF failed THEN "exit1" ELSE "finish"

\* copy_directory and copy_file return void: the caller goes on the same
\* way whether the callee failed or not.
ReturnTo(stk, failed) == IF stk = <<>> THEN "finish" ELSE "loop"

\* copy_directory, line 300: mkdir(dest, 0755) != 0 && errno != EEXIST.
MkdirFailed(res) == res = "fail"

\* Mutant: the early return of line 305 without the closedir of line 304.
DirsAfterOpen_NoClose(n, opened, made) ==
    IF opened THEN n + 1 ELSE n

\* copy_directory, lines 290-306: the DIR streams open after opendir and
\* mkdir; the stream is closed again (line 304) when mkdir fails.
DirsAfterOpen(n, opened, made) ==
    IF opened /\ made THEN n + 1 ELSE n

\* copy_directory, lines 290-308: opendir(src), mkdir(dest), then the loop.
CopyDirectoryCall(flt) ==
    /\ pc = "calldir" /\ Len(stack) < StackMax
    /\ LET at == Stat(fs, call.src)
           opened == at # NoEnt /\ fs[at].k = "dir" /\ flt # "opendir"
           mk == Mkdir(fs, call.dest)
           made == ~MkdirFailed(mk.res) /\ flt # "mkdir" IN
       /\ openDirs' = DirsAfterOpen(openDirs, opened, made)
       /\ IF opened /\ made
          THEN /\ fs' = IF mk.res = "ok" THEN Put(fs, mk.at, Dir) ELSE fs
               /\ stack' = Append(stack, [src |-> call.src, dest |-> call.dest,
                                          dir |-> at,
                                          atOpen |-> Entries(fs, at),
                                          seen |-> {}])
               /\ entered' = entered \cup {[src |-> call.src,
                                           dest |-> call.dest,
                                           names |-> Entries(fs, at)]}
               /\ pc' = "loop"
               /\ UNCHANGED log
          ELSE /\ log' = log \cup
                     {<<call.src, IF opened THEN "mkdir" ELSE "opendir">>}
               /\ pc' = ReturnTo(stack, TRUE)
               /\ UNCHANGED <<fs, stack, entered>>
    /\ Spend(flt)
    /\ call' = NoCall
    /\ UNCHANGED <<conf, confDir, clock, opts, args, locals, openFiles, out,
                   hist>>

\* The process stack is exhausted by one more copy_directory frame (each
\* holds two PATH_MAX buffers): the process dies of SIGSEGV.
StackOverflow ==
    /\ pc = "calldir" /\ Len(stack) >= StackMax
    /\ pc' = "crash"
    /\ UNCHANGED <<env, opts, args, locals, copying, out, log, faults, hist>>

\* Mutant: the failed entry ends the enumeration of its directory.
OnEntryError_Return(stk) == Front(stk)

\* copy_directory, lines 336-340 (and copy_file's early returns into the
\* loop): the failure is logged and the loop goes on with the frames as
\* they are.
OnEntryError(stk) == stk

\* The entries the innermost DIR stream has not returned.
Unread ==
    IF stack = <<>> THEN {}
    ELSE Entries(fs, Last(stack).dir) \ Last(stack).seen

\* copy_directory, lines 314-341: readdir returns the entry n, still not
\* returned by this stream; stat (which follows symbolic links) decides.
ReadDir(n, flt) ==
    /\ pc = "loop" /\ stack # <<>>
    /\ LET top == Last(stack)
           src_path == Join(top.src, n)
           dest_path == Join(top.dest, n)
           at == Stat(fs, src_path)
           seenN == [stack EXCEPT ![Len(stack)].seen = @ \cup {n}] IN
       /\ n \in Unread
       /\ IF at = NoEnt \/ flt = "stat"
          THEN /\ log' = log \cup {<<src_path, "stat">>}
               /\ stack' = OnEntryError(seenN)
               /\ pc' = ReturnTo(stack', TRUE)
               /\ UNCHANGED call
          ELSE /\ stack' = seenN
               /\ IF fs[at].k = "dir"
                  THEN /\ call' = [NoCall EXCEPT !.src = src_path,
                                                 !.dest = dest_path]
                       /\ pc' = "calldir"
                       /\ UNCHANGED log
                  ELSE IF fs[at].k = "reg"
                  THEN /\ call' = [NoCall EXCEPT !.src = src_path,
                                                 !.dest = dest_path]
                       /\ pc' = "callfile"
                       /\ UNCHANGED log
                  ELSE /\ log' = log \cup {<<src_path, "skipped">>}
                       /\ pc' = "loop"
                       /\ UNCHANGED call
    /\ Spend(flt)
    /\ UNCHANGED <<env, opts, args, locals, openDirs, openFiles, entered, out,
                   hist>>

\* copy_directory, lines 314 and 343-346: readdir returns NULL once every
\* entry the directory held at opendir has been returned (whether it also
\* returns an entry added since is unspecified); closedir; return.
EndDir ==
    /\ pc = "loop" /\ stack # <<>>
    /\ LET top == Last(stack) IN
       (top.atOpen \cap Entries(fs, top.dir)) \subseteq top.seen
    /\ stack' = Front(stack)
    /\ openDirs' = openDirs - 1
    /\ pc' = ReturnTo(stack', FALSE)
    /\ UNCHANGED <<env, opts, args, locals, call, openFiles, entered, out, log,
                   faults, hist>>

\* --------------------------------------------------------------- copy_file
\* copy_file, lines 237-254: the FILE streams open after the two fopens;
\* the source is closed again (line 252) when the destination fails.
FilesAfterOpen(n, srcOk, destOk) ==
    IF srcOk /\ destOk THEN n + 2 ELSE n

\* copy_file, lines 237-256: fopen(src, "rb"), fopen(dest, "wb").
CopyFileOpen(flt) ==
    /\ pc = "callfile"
    /\ LET from == Stat(fs, call.src)
           srcOk == from # NoEnt /\ flt # "opensrc"
           w == FopenW(fs, call.dest)
           destOk == w.st # "err" /\ flt # "opendest" IN
       /\ openFiles' = FilesAfterOpen(openFiles, srcOk, destOk)
       /\ IF srcOk /\ destOk
          THEN /\ fs' = Put(fs, w.at, Reg(<<>>, IF w.st = "ok"
                                                THEN fs[w.at].mode
                                                ELSE CreatMode))
               /\ call' = [call EXCEPT !.from = from, !.at = w.at]
               /\ pc' = "filebody"
               /\ UNCHANGED <<log, stack>>
          ELSE /\ log' = log \cup
                     {<<call.src, IF srcOk THEN "opendest" ELSE "opensrc">>}
               /\ stack' = OnEntryError(stack)
               /\ pc' = ReturnTo(stack', TRUE)
               /\ call' = NoCall
               /\ UNCHANGED fs
    /\ Spend(flt)
    /\ UNCHANGED <<conf, confDir, clock, opts, args, locals, openDirs, entered,
                   out, hist>>

\* The numbers of blocks the read/write loop may get written.
Cuts == IF pc = "filebody" THEN 0 .. Len(fs[call.from].data) ELSE {}

\* copy_file, lines 258-286: the read/write loop (cut blocks reach the
\* destination when a write fails), both fclose, then stat(src) and
\* chmod(dest, st_mode).
CopyFileBody(flt, cut) ==
    /\ pc = "filebody"
    /\ LET data == fs[call.from].data
           copied == [fs EXCEPT ![call.at].data = SubSeq(data, 1, cut)]
           st == IF flt = "restat" THEN NoEnt ELSE Stat(copied, call.src)
           to == Stat(copied, call.dest) IN
       /\ cut \in 0 .. Len(data)
       /\ (flt = "write") = (cut < Len(data))
       /\ fs' = IF st # NoEnt /\ to # NoEnt /\ flt # "chmod"
                THEN [copied EXCEPT ![to].mode = copied[st].mode]
                ELSE copied
       /\ log' = IF flt \in {"write", "chmod", "restat"}
                 THEN log \cup {<<call.src, flt>>}
                 ELSE IF st # NoEnt /\ to = NoEnt
                 THEN log \cup {<<call.src, "chmod">>}
                 ELSE log
    /\ openFiles' = openFiles - 2
    /\ Spend(flt)
    /\ call' = NoCall
    /\ pc' = ReturnTo(stack, FALSE)
    /\ UNCHANGED <<conf, confDir, clock, opts, args, locals, stack, openDirs,
                   entered, out, hist>>


\* ------------------------------------------------------------ invocations
\* The command lines: options in the order getopt returns them, operands.
T(x) == [kind |-> "t", arg |-> x]
Unknown == [kind |-> "?", arg |-> <<>>]
Cmd(o, a) == [opts |-> o, args |-> a]

Src == <<Slash, "s">>

CommandLines ==
    { Cmd(<<>>, <<Src>>),                               \* backup /s
      Cmd(<<>>, <<>>),                                  \* no operand
      Cmd(<<>>, <<Src \o <<Slash, "f">> >>),            \* operand not a directory
      Cmd(<<T(<<Slash, "p">>)>>, <<>>),                 \* -t /p, a link to /t
      Cmd(<<T(<<Slash, "t">>)>>, <<Src>>),              \* -t /t /s
      Cmd(<<T(<<Slash, NL>>)>>, <<>>),                  \* -t "/<newline>"
      Cmd(<<T(<<Slash, "x">>)>>, <<>>),                 \* -t /x, missing
      Cmd(<<T(<<Slash, "t">>), T(<<Slash, "x">>)>>, <<>>),  \* -t /t -t /x
      Cmd(<<T(<<Slash, "u">>), T(<<Slash, "t">>)>>, <<>>),  \* -t /u -t /t
      Cmd(<<Unknown>>, <<Src>>) }                       \* -z /s

\* A new process: main's locals as lines 38-44 leave them.
NextRun(c, tick) ==
    /\ Exited /\ runs < MaxRuns
    /\ clock + tick <= MaxTick
    /\ clock' = clock + tick
    /\ runs' = runs + 1
    /\ opts' = c.opts /\ args' = c.args /\ argv0' = c.opts
    /\ pc' = "getopt"
    /\ target_dir' = DEFAULT_TARGET_DIR /\ update_default' = FALSE
    /\ source_dir' = <<>> /\ backup_dir' = <<>>
    /\ stack' = <<>> /\ call' = NoCall /\ openDirs' = 0 /\ openFiles' = 0
    /\ out' = <<>> /\ log' = {} /\ entered' = {}
    /\ confAtStart' = conf /\ fsAtStart' = fs
    /\ collided' = FALSE /\ created' = FALSE
    /\ UNCHANGED <<fs, conf, confDir, faults, lastSet>>

\* ------------------------------------------------------------------ worlds
\* /t and /u are target directories, /m is the built-in default, /p is a
\* symbolic link to /t and /<newline> is a directory.
Base ==
    (<<>> :> Dir) @@ (<<"t">> :> Dir) @@ (<<"u">> :> Dir) @@ (<<"m">> :> Dir)
    @@ (<<"p">> :> Lnk(<<"t">>)) @@ (<<NL>> :> Dir) @@ (<<"s">> :> Dir)

\* Regular files and a subdirectory.
TreeA ==
    Base @@ (<<"s", "f">> :> Reg(<<"a", "b">>, "rw-------"))
         @@ (<<"s", "d">> :> Dir)
         @@ (<<"s", "d", "g">> :> Reg(<<"c">>, "r-xr-xr-x"))

\* A symbolic link to a file, and a FIFO.
TreeL ==
    Base @@ (<<"s", "f">> :> Reg(<<"a">>, "rw-------"))
         @@ (<<"s", "l">> :> Lnk(<<"s", "f">>))
         @@ (<<"s", "k">> :> Fifo)

\* A symbolic link to a directory.
TreeJ ==
    Base @@ (<<"s", "d">> :> Dir)
         @@ (<<"s", "d", "g">> :> Reg(<<"c">>, "r-xr-xr-x"))
         @@ (<<"s", "j">> :> Lnk(<<"s", "d">>))

\* The backup directory of second 0 is left from an earlier run.
TreeC ==
    Base @@ (<<"s", "f">> :> Reg(<<"a">>, "rw-------"))
         @@ (<<"m", "T0">> :> Dir)
         @@ (<<"m", "T0", "z">> :> Reg(<<"z">>, "rw-r--r--"))

\* A chain of directories whose last path has PathMax - 2 characters.
TreeDeep ==
    Base @@ (<<"s", "a">> :> Dir) @@ (<<"s", "a", "b">> :> Dir)
         @@ (<<"s", "a", "b", "c">> :> Dir)
         @@ (<<"s", "a", "b", "c", "d">> :> Dir)
         @@ (<<"s", "a", "b", "c", "d", "f">> :> Reg(<<"a">>, "rw-------"))

FitWorlds ==
    { [fs |-> w, conf |-> c, clock |-> 0] :
        w \in {TreeA, TreeL, TreeJ, TreeC}, c \in {NoFile, <<Slash, "u">>} }

\* One file, for the world whose stored default is the source directory
\* itself: the target lies inside the source tree.
TreeIn == Base @@ (<<"s", "f">> :> Reg(<<"a">>, "rw-------"))

\* The worlds whose paths outgrow the path buffers.  The second has seen
\* its last second: a later invocation finds the same timestamp.
DeepWorlds ==
    { [fs |-> TreeDeep, conf |-> <<Slash, "t">>, clock |-> 0],
      [fs |-> TreeIn, conf |-> Src, clock |-> MaxTick] }

InitOn(worlds) ==
    /\ \E w \in worlds : fs = w.fs /\ conf = w.conf /\ clock = w.clock
    /\ confDir = (conf # NoFile)
    /\ \E c \in CommandLines : opts = c.opts /\ args = c.args
    /\ argv0 = opts
    /\ pc = "getopt"
    /\ target_dir = DEFAULT_TARGET_DIR /\ update_default = FALSE
    /\ source_dir = <<>> /\ backup_dir = <<>>
    /\ stack = <<>> /\ call = NoCall /\ openDirs = 0 /\ openFiles = 0
    /\ out = <<>> /\ log = {} /\ entered = {}
    /\ faults = 0 /\ runs = 1
    /\ confAtStart = conf /\ fsAtStart = fs
    /\ lastSet = NoFile /\ collided = FALSE /\ created = FALSE

Init == InitOn(FitWorlds)

Next ==
    \/ GetoptT
    \/ GetoptUsage
    \/ GetoptEnd
    \/ \E flt \in Faults({"mkdir", "fopen", "flush"}) : WriteDefault(flt)
    \/ Confirm
    \/ \E flt \in Faults({"fopen"}) : ReadDefault(flt)
    \/ CheckSource
    \/ \E flt \in Faults({"mkdir"}) : MkBackupDir(flt)
    \/ StartCopy
    \/ \E flt \in Faults({"opendir", "mkdir"}) : CopyDirectoryCall(flt)
    \/ \E n \in Unread, flt \in Faults({"stat"}) : ReadDir(n, flt)
    \/ EndDir
    \/ \E flt \in Faults({"opensrc", "opendest"}) : CopyFileOpen(flt)
    \/ \E flt \in Faults({"write", "chmod", "restat"}),
          cut \in Cuts : CopyFileBody(flt, cut)
    \/ Finish
    \/ \E c \in CommandLines, tick \in {0, 1} : NextRun(c, tick)

\* The worlds whose paths fit the path buffers.
Spec == Init /\ [][Next]_vars

\* Every world, the ones whose paths outgrow the path buffers included, and
\* the end of the process stack.  The process is sequential and each of its
\* steps returns, so a step that can be taken is taken.
DeepInit == InitOn(FitWorlds \cup DeepWorlds)
DeepNext == Next \/ StackOverflow
DeepSpec == DeepInit /\ [][DeepNext]_vars /\ WF_vars(DeepNext)


\* ------------------------------------------------------------------ claims
\* The paths of the warnings and errors other than "skipped".
IOErrors == { e \in log : e[2] # "skipped" }
FailedOn(path) == \E e \in IOErrors : e[1] = path
Completed ==
    out # <<>> /\ Last(out) = "Backup completed successfully!"

\* The paths below root, relative to it.
Below(f, root) ==
    { SubSeq(p, Len(root) + 1, Len(p)) :
        p \in { q \in DOMAIN f : Len(q) > Len(root)
                                 /\ SubSeq(q, 1, Len(root)) = root } }

\* C1: when a run ends with no I/O failure, the backup directory holds a
\* directory for each directory of the source tree, a regular file with the
\* same bytes and the same permission bits for each regular file, nothing
\* for a symbolic link or a special file, and nothing else.
C1_CopyIsomorphic ==
    (pc = "exit0" /\ created /\ IOErrors = {}) =>
        LET from == Stat(fs, source_dir)
            to == Stat(fs, backup_dir) IN
        /\ \A r \in Below(fs, from) :
              LET s == fs[from \o r] IN
              IF s.k = "dir"
              THEN (to \o r) \in DOMAIN fs /\ fs[to \o r].k = "dir"
              ELSE IF s.k = "reg"
              THEN /\ (to \o r) \in DOMAIN fs
                   /\ fs[to \o r].k = "reg"
                   /\ fs[to \o r].data = s.data
                   /\ fs[to \o r].mode = s.mode
              ELSE (to \o r) \notin DOMAIN fs
        /\ \A r \in Below(fs, to) :
              (from \o r) \in DOMAIN fs /\ fs[from \o r].k \in {"dir", "reg"}

\* C2: a plain run that follows a confirmed -t P run reads the canonical P
\* back from the config file and creates its backup directory as
\* P/<timestamp>, here even in the behaviours where no system call fails
\* for a reason of the environment.
C2_RoundTrip ==
    (faults = 0 /\ lastSet # NoFile
     /\ pc \in {"operand", "mkdir", "backing"}) =>
        /\ target_dir = lastSet
        /\ pc = "backing" => backup_dir = lastSet \o <<Slash, Stamp(clock)>>

\* C3: an invocation one of whose -t arguments names no existing path never
\* gets past the option loop except to exit(1), and leaves the config file
\* as it found it.
InvalidT(o, f) ==
    \E i \in 1 .. Len(o) : o[i].kind = "t" /\ Stat(f, o[i].arg) = NoEnt

C3_InvalidTargetKeepsDefault ==
    InvalidT(argv0, fsAtStart) =>
        conf = confAtStart /\ pc \in {"getopt", "exit1"}

C3_Witness ==
    InvalidT(argv0, fsAtStart) /\ pc = "exit1" /\ update_default
    /\ confAtStart # NoFile

\* C4: when a -t run has printed its confirmation and exited 0, the config
\* file holds the canonical target directory.
C4_ConfirmedIsStored ==
    (pc = "exit0" /\ out # <<>>
     /\ out[1] = "Updated default backup directory") => conf = target_dir

\* C5: at the end of a run, every entry of every enumerated directory that
\* met no failure of its own has been copied: a regular file with its
\* bytes, a directory as a directory.
EntryCopied(e, n) ==
    LET s == Stat(fs, e.src \o <<Slash, n>>)
        d == Stat(fs, e.dest \o <<Slash, n>>) IN
    IF s = NoEnt THEN TRUE
    ELSE IF fs[s].k = "reg"
    THEN d # NoEnt /\ fs[d].k = "reg" /\ fs[d].data = fs[s].data
    ELSE IF fs[s].k = "dir"
    THEN d # NoEnt /\ fs[d].k = "dir"
    ELSE TRUE

C5_FailureSkipsOneEntry ==
    pc \in {"finish", "exit0"} =>
        \A e \in entered : \A n \in e.names :
            FailedOn(e.src \o <<Slash, n>>) \/ EntryCopied(e, n)

C5_Witness ==
    /\ pc = "exit0"
    /\ \E e \in entered : \E n1, n2 \in e.names :
          /\ FailedOn(e.src \o <<Slash, n1>>)
          /\ ~FailedOn(e.src \o <<Slash, n2>>)
          /\ Lstat(fs, e.src \o <<Slash, n2>>) # NoEnt
          /\ fs[Lstat(fs, e.src \o <<Slash, n2>>)].k = "reg"
          /\ EntryCopied(e, n2)

\* C6: at the end of a run, no entry that is a symbolic link or a special
\* file has anything at its place in the destination, and no directory was
\* enumerated through it.
C6_LinksAndSpecialsSkipped ==
    pc \in {"finish", "exit0"} =>
        \A e \in entered : \A n \in e.names :
            LET at == Lstat(fs, e.src \o <<Slash, n>>) IN
            (at # NoEnt /\ fs[at].k \in {"lnk", "fifo"}) =>
                /\ Lstat(fs, e.dest \o <<Slash, n>>) = NoEnt
                /\ \A x \in entered : x.src # e.src \o <<Slash, n>>

\* C7, as claimed: a run that finds its timestamped backup directory
\* existing does not fail.
C7_CollisionMerges == collided => pc # "exit1"

\* C7, amended: a run that finds its timestamped backup directory existing
\* exits 1 without having announced or copied anything.
C7_CollisionIsFatal ==
    collided => pc = "exit1" /\ ~created /\ out = <<>> /\ fs = fsAtStart

C7_Witness ==
    collided /\ pc = "exit1" /\ IsDir(fs, backup_dir) /\ runs = 2

C9_PlainRunTerminates ==
    \A r \in 1 .. MaxRuns :
        (pc = "backing" /\ runs = r) ~>
            (runs = r /\ pc \in {"exit0", "exit1"})

====
